---- MODULE Spec2Model ----
(***************************************************************************)
(* Model of w3c_batch: the web server's job pipeline (createJob, emit,     *)
(* endJob, runValidation and the /api/validate, /api/stream, /api/abort    *)
(* handlers, whose code is the TypeScript listing in README.md) and the    *)
(* command line program (cli.ts main).                                     *)
(*                                                                         *)
(* Node runs one callback to completion before the next one starts, so an  *)
(* action is everything the code does from one resumption (a request       *)
(* arriving, an awaited call settling, a timer firing) to its next await:  *)
(* promise continuations and p-limit's dequeue run as microtasks of the    *)
(* same turn.                                                              *)
(*                                                                         *)
(* Arrays are sequences: JavaScript index i is position i + 1.  Wall-clock *)
(* values (duration, generatedAt) and message texts are left out of the    *)
(* records; nothing in the pipeline branches on them.                      *)
(***************************************************************************)
EXTENDS Integers, Sequences, FiniteSets, TLC

VARIABLES
  program,       \* which entry point runs: "server" (README.md listing) or "cli" (cli.ts)
  params,        \* the submitted { xml, base } (server) or the options (cli)
  pc,            \* where runValidation / main stands
  buffered,      \* job.buffered
  listeners,     \* job.listeners (the observers whose listener is in the set)
  report,        \* job.report
  done,          \* job.done
  aborted,       \* job.aborted
  sitemapUrls,   \* result.sitemapUrls of an index root
  nextSitemap,   \* position in sitemapUrls of the nested fetch being awaited
  rawUrls,       \* rawUrls
  baseUrl,       \* baseUrl
  resolvedUrls,  \* resolvedUrls
  results,       \* results
  running,       \* index of the task holding the limiter's slot, -1 when none
  taskAt,        \* the await that task stands at: "validatePage", "sleep" or "none"
  summary,       \* the summary local, Null until computed
  exitCode,      \* cli: process.exit status, -1 while running
  response,      \* per observer: its HTTP response "none", "open", "ended" or "closed"
  delivered,     \* per observer: the events written to its response while open
  abortCalls,    \* history: number of POST /api/abort requests served
  abortIndex,    \* history: index of the task in flight when abort first set the flag, -1 if none
  invoked,       \* history: indices of the tasks that called validatePage
  rejected,      \* history: indices of the tasks whose validatePage rejected
  released,      \* history: indices of the tasks that ran to their end (slot given back)
  calls,         \* history: the collaborator calls made by the running task's validatePage
  fetched,       \* history (cli): the sitemap URLs extractUrlsFromSitemap requested
  web,           \* history: what each sitemap URL requested answered (cli: the web given
                 \* to extractUrlsFromSitemap)
  resolution,    \* a call of resolveUrlToBase on its own: its arguments and what it
                 \* returned, Null before the call
  mapped         \* a call of mapMessages on its own: the checker's answer, the messages
                 \* returned and the status they give a page, Null before the call

vars == <<program, params, pc, buffered, listeners, report, done, aborted,
          sitemapUrls, nextSitemap, rawUrls, baseUrl, resolvedUrls, results,
          running, taskAt, summary, exitCode, response, delivered,
          abortCalls, abortIndex, invoked, rejected, released, calls, fetched,
          web, resolution, mapped>>

---------------------------------------------------------------------------
(* Bounds of the model *)

MaxEntries == 3      \* entries of a submitted <urlset>
MaxSitemaps == 2     \* entries of a submitted <sitemapindex>
MaxNestedUrls == 1   \* urls collected from the nested sitemaps of an index
MaxAborts == 2       \* abort requests served for the job
NumObservers == 2    \* stream connections opened for the job
MaxStreamEntries == 1  \* entries of the <urlset> submitted in the runs that follow the streams
MaxPath == 1         \* paths of the URLs given to resolveUrlToBase on its own
MaxMessages == 2     \* messages of a checker answer given to mapMessages on its own
MaxChain == 5        \* depth of the deepest nested sitemap of the web given to the cli

\* sitemap.ts: const MAX_DEPTH = 3
MAX_DEPTH == 3

\* runValidation / main: const limit = pLimit(1)
ConcurrencyLimit == 1

Observers == 1..NumObservers

---------------------------------------------------------------------------
(* Values *)

Null == [null |-> TRUE]

\* An entry without <loc> (or with an empty one)
NoLoc == [origin |-> "", path |-> 0]

\* The k-th page of the production site / the k-th nested sitemap
PageUrl(k) == [origin |-> "prod", path |-> k]
NestedSitemapUrl(k) == [origin |-> "prod", path |-> 100 + k]
NestedPageUrl(s, j) == [origin |-> "prod", path |-> 10 * s.path + j]

MessageType == {"error", "warning", "info"}

Msg(t) == [type |-> t]

\* A message of the checker's JSON answer; subType "none" when it has none
RawMsg(type, subType) == [type |-> type, subType |-> subType]

\* Mutant of normalizeType: the subType alone makes a warning
normalizeType_SubTypeOnly(type, subType) ==
  IF type = "error" THEN "error"
  ELSE IF subType = "warning" THEN "warning"
  ELSE "info"

\* validator.ts normalizeType
normalizeType(type, subType) ==
  IF type = "error" THEN "error"
  ELSE IF type = "info" /\ subType = "warning" THEN "warning"
  ELSE "info"

\* validator.ts mapMessages, on data.messages
mapMessages(data) == [i \in DOMAIN data |-> Msg(normalizeType(data[i].type, data[i].subType))]

\* The checker answers tried in the pipeline: no message, an info with a
\* warning, a warning with two errors (one of them fatal)
CheckerAnswers ==
  {<<>>,
   <<RawMsg("info", "none"), RawMsg("info", "warning")>>,
   <<RawMsg("info", "warning"), RawMsg("error", "none"), RawMsg("error", "fatal")>>}

\* What validateUrl and validateHtml return for them
MessageLists == {mapMessages(data) : data \in CheckerAnswers}

\* What the collaborators of one validatePage call do: whether validateUrl,
\* fetchPageHtml and validateHtml succeed, and the messages the checker answers
CollaboratorOutcomes ==
  [validateUrl : BOOLEAN, fetchPageHtml : BOOLEAN, validateHtml : BOOLEAN,
   messages : MessageLists]

\* Parsed XML documents: entry k of a urlset names page k or has no location
UrlsetXmls ==
  UNION {[root : {"urlset"},
          entries : {e \in [1..n -> {NoLoc} \cup {PageUrl(k) : k \in 1..n}] :
                       \A k \in 1..n : e[k] \in {NoLoc, PageUrl(k)}}] : n \in 0..MaxEntries}
IndexXmls ==
  UNION {[root : {"sitemapindex"},
          entries : {e \in [1..n -> {NoLoc} \cup {NestedSitemapUrl(k) : k \in 1..n}] :
                       \A k \in 1..n : e[k] \in {NoLoc, NestedSitemapUrl(k)}}] : n \in 0..MaxSitemaps}
OtherXml == [root |-> "other", entries |-> <<>>]
Xmls == UrlsetXmls \cup IndexXmls \cup {OtherXml}

\* params.base: empty, a string new URL() rejects, or a loopback origin
BaseInputs == {"", "not a url", "localhost"}

\* cli: --sitemap, --base (absent, a string new URL() rejects, or a loopback origin) and --delay
\* (a number as parseInt reads it, or text parseInt reads as NaN)
CliSitemapUrl == [origin |-> "prod", path |-> 100]
CliBaseInputs == {"absent", "not a url", "127.0.0.1"}
DelayInputs == {[nan |-> TRUE, n |-> 0]} \cup [nan : {FALSE}, n : {-1, 0, 1000}]

\* What a sitemap URL answers to axios.get: a failure, or a parsed document
FailedFetch == [ok |-> FALSE, root |-> "other", entries |-> <<>>]
UrlsetDoc(first, n) ==
  [ok |-> TRUE, root |-> "urlset", entries |-> [j \in 1..n |-> PageUrl(first + j)]]
IndexDoc(entries) == [ok |-> TRUE, root |-> "sitemapindex", entries |-> entries]
OtherDoc == [ok |-> TRUE, root |-> "other", entries |-> <<>>]

\* The sitemap nested k levels below --sitemap on the chain, and the sitemap
\* that the root index lists after the chain
SitemapAt(k) == NestedSitemapUrl(k)
SideSitemap == [origin |-> "prod", path |-> 99]

\* A web of one document: --sitemap answers leaf
FlatWeb(leaf) == [u \in {SitemapAt(0)} |-> leaf]

\* A web whose root index lists a chain of indexes ending in leaf at depth d,
\* an entry without <loc>, and a urlset of m pages
DeepWeb(d, leaf, n, m) ==
  [u \in {SitemapAt(k) : k \in 0..d} \cup {SideSitemap} |->
     IF u = SideSitemap THEN UrlsetDoc(n, m)
     ELSE IF u = SitemapAt(d) THEN leaf
     ELSE IF u = SitemapAt(0) THEN IndexDoc(<<SitemapAt(1), NoLoc, SideSitemap>>)
     ELSE IndexDoc(<<[origin |-> "prod", path |-> u.path + 1]>>)]

Webs ==
  {FlatWeb(leaf) : leaf \in {FailedFetch, OtherDoc} \cup {UrlsetDoc(0, n) : n \in 0..MaxEntries}}
    \cup {DeepWeb(d, leaf, 1, m) :
             d \in 1..MaxChain, leaf \in {FailedFetch, OtherDoc, UrlsetDoc(0, 1)}, m \in 0..1}

---------------------------------------------------------------------------
(* Pure helpers *)

\* messages.filter((m) => m.type === type).length
CountOfType(messages, type) ==
  Cardinality({i \in DOMAIN messages : messages[i].type = type})

\* pages.filter((r) => r.status === status).length
CountOfStatus(pages, status) ==
  Cardinality({i \in DOMAIN pages : pages[i].status = status})

RECURSIVE SumSeq(_)
SumSeq(nums) == IF nums = <<>> THEN 0 ELSE Head(nums) + SumSeq(Tail(nums))

\* Mutant of TotalOfType: a page counts once however many messages of the type it has
TotalOfType_OncePerPage(pages, type) ==
  Cardinality({i \in DOMAIN pages : CountOfType(pages[i].messages, type) > 0})

\* pages.reduce((s, r) => s + r.messages.filter((m) => m.type === type).length, 0)
TotalOfType(pages, type) ==
  SumSeq([i \in DOMAIN pages |-> CountOfType(pages[i].messages, type)])

\* new Array(n): n empty slots
NewArray(n) == [i \in 1..n |-> Null]

\* arr[index] = value on a JavaScript array (a write past the end leaves holes)
ArraySet(arr, index, value) ==
  [i \in 1..(IF index + 1 > Len(arr) THEN index + 1 ELSE Len(arr)) |->
     IF i = index + 1 THEN value ELSE IF i <= Len(arr) THEN arr[i] ELSE Null]

\* Mutant of Locations: the list ends at the first entry without a location
Locations_StopAtGap(entries) ==
  LET gaps == {k \in DOMAIN entries : entries[k] = NoLoc}
  IN IF gaps = {} THEN entries
     ELSE SubSeq(entries, 1, (CHOOSE k \in gaps : \A g \in gaps : k <= g) - 1)

\* sitemap.ts: entries.map(e => e.loc).filter(loc => typeof loc === 'string' && loc.length > 0)
Locations(entries) == SelectSeq(entries, LAMBDA loc : loc # NoLoc)

\* sitemap.ts parseUrlsFromXml: the ParseResult, or kind "throw" for the thrown Error
parseUrlsFromXml(xml) ==
  IF xml.root = "urlset" THEN [kind |-> "urls", urls |-> Locations(xml.entries)]
  ELSE IF xml.root = "sitemapindex"
    THEN [kind |-> "sitemapindex", urls |-> Locations(xml.entries)]
  ELSE [kind |-> "throw", urls |-> <<>>]

\* Mutant of TooDeep: no depth is beyond the bound
TooDeep_Never(depth) == FALSE

\* sitemap.ts extractUrlsFromSitemap: if (depth > MAX_DEPTH)
TooDeep(depth) == depth > MAX_DEPTH

RECURSIVE extractUrlsFromSitemap(_, _, _)
RECURSIVE ExtractEntries(_, _, _, _)

\* sitemap.ts extractUrlsFromSitemap, the for loop over the <sitemap> entries of
\* an index found at depth: a nested call that throws ends the loop
ExtractEntries(w, entries, depth, acc) ==
  IF entries = <<>> THEN acc
  ELSE IF Head(entries) = NoLoc THEN ExtractEntries(w, Tail(entries), depth, acc)
  ELSE LET nested == extractUrlsFromSitemap(w, Head(entries), depth + 1) IN
       IF ~nested.ok
         THEN [ok |-> FALSE, urls |-> <<>>, fetched |-> acc.fetched \cup nested.fetched]
       ELSE ExtractEntries(w, Tail(entries), depth,
                           [ok |-> TRUE, urls |-> acc.urls \o nested.urls,
                            fetched |-> acc.fetched \cup nested.fetched])

\* sitemap.ts extractUrlsFromSitemap(sitemapUrl, depth) on the web w: whether it
\* returns (ok) or throws, the URLs returned and the sitemap URLs requested
extractUrlsFromSitemap(w, sitemapUrl, depth) ==
  IF TooDeep(depth) THEN [ok |-> TRUE, urls |-> <<>>, fetched |-> {}]
  ELSE LET doc == w[sitemapUrl] IN
       IF ~doc.ok THEN [ok |-> FALSE, urls |-> <<>>, fetched |-> {sitemapUrl}]
       ELSE IF doc.root = "sitemapindex"
         THEN ExtractEntries(w, doc.entries, depth,
                             [ok |-> TRUE, urls |-> <<>>, fetched |-> {sitemapUrl}])
       ELSE IF doc.root = "urlset"
         THEN [ok |-> TRUE, urls |-> Locations(doc.entries), fetched |-> {sitemapUrl}]
       ELSE [ok |-> FALSE, urls |-> <<>>, fetched |-> {sitemapUrl}]

\* new URL(s) succeeds
Parseable(base) == base # "not a url"

\* The text of a URL that is only an origin
OriginUrl(origin) == [origin |-> origin, path |-> 0]

\* utils.ts getOrigin
getOrigin(url) == url.origin

\* A URL as new URL() holds it: scheme, host, port ("" for none or for the
\* scheme's default), path, query, and whether the path is opaque (a URL
\* without "//", such as "localhost:3000", whose scheme is "localhost")
Url(scheme, host, port, path, query) ==
  [scheme |-> scheme, host |-> host, port |-> port, path |-> path, query |-> query,
   opaque |-> FALSE]
OpaqueUrl(scheme, path) ==
  [scheme |-> scheme, host |-> "", port |-> "", path |-> path, query |-> "",
   opaque |-> TRUE]

\* URL standard: the special schemes (of those used here) and their default ports
SpecialSchemes == {"http", "https"}
IsSpecial(scheme) == scheme \in SpecialSchemes
DefaultPort(scheme) ==
  IF scheme = "http" THEN "80" ELSE IF scheme = "https" THEN "443" ELSE ""

\* loc.protocol = value: ignored between a special and a non-special scheme;
\* a port that is the new scheme's default becomes none
SetProtocol(url, value) ==
  IF IsSpecial(url.scheme) # IsSpecial(value) THEN url
  ELSE [url EXCEPT !.scheme = value,
                   !.port = IF url.port = DefaultPort(value) THEN "" ELSE url.port]

\* loc.hostname = value: ignored on an opaque path, and when value is empty
\* on a special scheme or on a URL with a port
SetHostname(url, value) ==
  IF url.opaque THEN url
  ELSE IF value = "" /\ (IsSpecial(url.scheme) \/ url.port # "") THEN url
  ELSE [url EXCEPT !.host = value]

\* loc.port = value: ignored on a URL with no host; "" removes the port, and
\* the scheme's default port is kept as none
SetPort(url, value) ==
  IF url.host = "" THEN url
  ELSE [url EXCEPT !.port = IF value = DefaultPort(url.scheme) THEN "" ELSE value]

\* utils.ts resolveUrlToBase, on the two URLs as new URL() holds them
resolveUrlToBase(locUrl, base) ==
  SetPort(SetHostname(SetProtocol(locUrl, base.scheme), base.host), base.port)

\* The origins the pipeline's URLs are written with, and the URL each stands for
OriginNames == {"prod", "localhost", "127.0.0.1"}
OriginParts(origin) ==
  IF origin = "prod" THEN [scheme |-> "https", host |-> "example.com", port |-> ""]
  ELSE IF origin = "localhost" THEN [scheme |-> "http", host |-> "localhost", port |-> "3000"]
  ELSE [scheme |-> "http", host |-> "127.0.0.1", port |-> "8080"]
UrlOf(u) ==
  Url(OriginParts(u.origin).scheme, OriginParts(u.origin).host, OriginParts(u.origin).port,
      u.path, "")
ShortUrl(url) ==
  [origin |-> CHOOSE o \in OriginNames :
                OriginParts(o) = [scheme |-> url.scheme, host |-> url.host, port |-> url.port],
   path |-> url.path]

\* Mutant of isLocalhost: no host is taken for a loopback host
isLocalhost_Never(url) == FALSE

\* utils.ts isLocalhost, on a URL that new URL() accepts
isLocalhost(url) == url.origin = "localhost" \/ url.origin = "127.0.0.1"

\* A call of a collaborator (validator.ts validateUrl, fetchPageHtml,
\* validateHtml) and whether it returned (ok) or threw
Call(op, ok) == [op |-> op, ok |-> ok]

\* validatePage: const html = await fetchPageHtml(url); return validateHtml(html),
\* after the calls made before
FetchThenValidate(c, before) ==
  IF ~c.fetchPageHtml
    THEN [ok |-> FALSE, messages |-> <<>>,
          calls |-> before \o <<Call("fetchPageHtml", FALSE)>>]
  ELSE [ok |-> c.validateHtml,
        messages |-> IF c.validateHtml THEN c.messages ELSE <<>>,
        calls |-> before \o <<Call("fetchPageHtml", TRUE), Call("validateHtml", c.validateHtml)>>]

\* validatePage(url): what the promise settles with (ok and the messages, or a
\* rejection) and the collaborator calls made, in order
validatePage(url, c) ==
  IF isLocalhost(url) THEN FetchThenValidate(c, <<>>)
  ELSE IF c.validateUrl
    THEN [ok |-> TRUE, messages |-> c.messages, calls |-> <<Call("validateUrl", TRUE)>>]
  ELSE FetchThenValidate(c, <<Call("validateUrl", FALSE)>>)

\* runValidation: params.base.trim() || getOrigin(rawUrls[0])
ServerBaseUrl(base, raw) == IF base # "" THEN base ELSE getOrigin(raw[1])

\* runValidation: rawUrls.map(url => ({ source: url, resolved: resolveUrlToBase(url, baseUrl) }))
ResolveAll(raw, base) ==
  [i \in 1..Len(raw) |->
     [source |-> raw[i],
      resolved |-> ShortUrl(resolveUrlToBase(UrlOf(raw[i]), UrlOf(OriginUrl(base))))]]

\* Mutant of Classify: a page with any message at all is a page with errors
Classify_AnyMessage(messages) ==
  IF Len(messages) > 0 THEN "errors" ELSE "clean"

\* Mutant of Classify: warnings are looked at before errors
Classify_WarningsFirst(messages) ==
  IF CountOfType(messages, "warning") > 0 THEN "warnings"
  ELSE IF CountOfType(messages, "error") > 0 THEN "errors"
  ELSE "clean"

\* runValidation / main: errors > 0 ? 'errors' : warnings > 0 ? 'warnings' : 'clean'
Classify(messages) ==
  IF CountOfType(messages, "error") > 0 THEN "errors"
  ELSE IF CountOfType(messages, "warning") > 0 THEN "warnings"
  ELSE "clean"

\* The PageResult of a check that returned messages
SuccessResult(u, messages) ==
  [url |-> u.resolved, sourceUrl |-> u.source, messages |-> messages,
   status |-> Classify(messages), errorMessage |-> ""]

\* Mutant of FailedResult: the page whose check threw is recorded as a clean page
FailedResult_Clean(u) ==
  [url |-> u.resolved, sourceUrl |-> u.source, messages |-> <<>>,
   status |-> "clean", errorMessage |-> ""]

\* The PageResult of a check that threw
FailedResult(u) ==
  [url |-> u.resolved, sourceUrl |-> u.source, messages |-> <<>>,
   status |-> "failed", errorMessage |-> "check failed"]

\* results.filter(Boolean)
FilterBoolean(res) == SelectSeq(res, LAMBDA r : r # Null)

\* Mutant of Summarize: the failed pages are left out of the status counts
Summarize_FailedUncounted(pages, site) ==
  [totalPages |-> Len(pages),
   pagesWithErrors |-> CountOfStatus(pages, "errors"),
   pagesWithWarnings |-> CountOfStatus(pages, "warnings"),
   pagesClean |-> CountOfStatus(pages, "clean"),
   pagesFailed |-> 0,
   totalErrors |-> TotalOfType(pages, "error"),
   totalWarnings |-> TotalOfType(pages, "warning"),
   totalInfos |-> TotalOfType(pages, "info"),
   sitemapUrl |-> site]

\* The ReportSummary over the pages counted
Summarize(pages, site) ==
  [totalPages |-> Len(pages),
   pagesWithErrors |-> CountOfStatus(pages, "errors"),
   pagesWithWarnings |-> CountOfStatus(pages, "warnings"),
   pagesClean |-> CountOfStatus(pages, "clean"),
   pagesFailed |-> CountOfStatus(pages, "failed"),
   totalErrors |-> TotalOfType(pages, "error"),
   totalWarnings |-> TotalOfType(pages, "warning"),
   totalInfos |-> TotalOfType(pages, "info"),
   sitemapUrl |-> site]

\* generateHtmlReport({ summary, pages }): the rendered document, kept as its input
generateHtmlReport(sum, pages) == [summary |-> sum, pages |-> pages]

---------------------------------------------------------------------------
(* Events *)

SitemapError(msg) == [type |-> "sitemap_error", message |-> msg]
IndexResolving(urls) == [type |-> "sitemapindex_resolving", count |-> Len(urls), urls |-> urls]
IndexFetching(url) == [type |-> "sitemapindex_fetching", url |-> url]
IndexFetched(url, n) == [type |-> "sitemapindex_fetched", url |-> url, count |-> n]
IndexFetchError(url) == [type |-> "sitemapindex_fetch_error", url |-> url]
IndexResolved(n) == [type |-> "sitemapindex_resolved", totalUrls |-> n]
SitemapDone(resolved) ==
  [type |-> "sitemap_done", count |-> Len(resolved),
   urls |-> [i \in 1..Len(resolved) |-> resolved[i].resolved]]
PageFetching(index, url) == [type |-> "page_fetching", index |-> index, url |-> url]
PageValidating(index, url) == [type |-> "page_validating", index |-> index, url |-> url]
PageDone(index, result) ==
  [type |-> "page_done", index |-> index, url |-> result.url, status |-> result.status,
   messages |-> result.messages, errorMessage |-> result.errorMessage]
Cancelled == [type |-> "cancelled"]
Done(sum) == [type |-> "done", summary |-> sum]
StreamEnd == [type |-> "stream_end"]

---------------------------------------------------------------------------
(* The job and the locals of runValidation / main, as one record, so that  *)
(* the code run by one action is a composition of functions on it.         *)

Cur ==
  [pc |-> pc, buffered |-> buffered, report |-> report, done |-> done,
   sitemapUrls |-> sitemapUrls, nextSitemap |-> nextSitemap, rawUrls |-> rawUrls,
   baseUrl |-> baseUrl, resolvedUrls |-> resolvedUrls, results |-> results,
   running |-> running, taskAt |-> taskAt, summary |-> summary, exitCode |-> exitCode,
   response |-> response, delivered |-> delivered, invoked |-> invoked,
   rejected |-> rejected, released |-> released, calls |-> calls, fetched |-> fetched]

Install(M) ==
  /\ pc' = M.pc
  /\ buffered' = M.buffered
  /\ report' = M.report
  /\ done' = M.done
  /\ sitemapUrls' = M.sitemapUrls
  /\ nextSitemap' = M.nextSitemap
  /\ rawUrls' = M.rawUrls
  /\ baseUrl' = M.baseUrl
  /\ resolvedUrls' = M.resolvedUrls
  /\ results' = M.results
  /\ running' = M.running
  /\ taskAt' = M.taskAt
  /\ summary' = M.summary
  /\ exitCode' = M.exitCode
  /\ response' = M.response
  /\ delivered' = M.delivered
  /\ invoked' = M.invoked
  /\ rejected' = M.rejected
  /\ released' = M.released
  /\ calls' = M.calls
  /\ fetched' = M.fetched

\* The listener of /api/stream is called: res.write(d), and res.end() on stream_end.
\* A write to a response that has ended or was closed delivers nothing.
Written(M, o) == o \in listeners /\ M.response[o] = "open"

\* emit(job, event)
emit(M, event) ==
  [M EXCEPT
     !.buffered = Append(@, event),
     !.delivered = [o \in Observers |->
                      IF Written(M, o) THEN Append(M.delivered[o], event) ELSE M.delivered[o]],
     !.response = [o \in Observers |->
                     IF Written(M, o) /\ event.type = "stream_end" THEN "ended"
                     ELSE M.response[o]]]

\* Mutant of endJob: stream_end is emitted and job.done is left as it was
endJob_FlagNotSet(M) == emit(M, StreamEnd)

\* endJob(job)
endJob(M) == [emit(M, StreamEnd) EXCEPT !.done = TRUE]

\* runValidation after Promise.all(tasks): summary, report, done, endJob
Finish(M) ==
  LET valid == FilterBoolean(M.results)
      sum == Summarize(valid, OriginUrl(M.baseUrl))
      M1 == [M EXCEPT !.summary = sum, !.report = generateHtmlReport(sum, valid)]
  IN [endJob(emit(M1, Done(sum))) EXCEPT !.pc = "returned", !.running = -1, !.taskAt = "none"]

\* The running task's function returns: the limiter takes its slot back
Release(M) ==
  [M EXCEPT !.released = @ \cup {M.running}, !.running = -1, !.taskAt = "none",
            !.calls = <<>>]

\* Mutant of Skips: the task does not look at job.aborted
Skips_Never(flag) == FALSE

\* The task's first statement: if (job.aborted) return
Skips(flag) == flag

\* Mutant of RunQueue: the limiter does not hold the next task back while the
\* slot is taken, the task of index i + 1 is started along with that of index i
RunQueue_SlotNotHeld(M, i) ==
  IF i >= Len(M.resolvedUrls) \/ Skips(aborted) THEN Finish(M)
  ELSE LET M1 == [emit(M, PageFetching(i, M.resolvedUrls[i + 1].resolved)) EXCEPT
                    !.pc = "tasks", !.running = i, !.taskAt = "validatePage",
                    !.invoked = @ \cup {i}]
       IN IF i + 1 >= Len(M.resolvedUrls) THEN M1
          ELSE [emit(M1, PageFetching(i + 1, M.resolvedUrls[i + 2].resolved)) EXCEPT
                  !.running = i + 1, !.invoked = @ \cup {i + 1}]

\* Mutant of RunQueue: the task of index i + 1 starts, and emits its
\* page_fetching, while the task of index i still holds the slot
RunQueue_NextStartsEarly(M, i) ==
  IF i >= Len(M.resolvedUrls) \/ Skips(aborted) THEN Finish(M)
  ELSE LET M1 == [emit(M, PageFetching(i, M.resolvedUrls[i + 1].resolved)) EXCEPT
                    !.pc = "tasks", !.running = i, !.taskAt = "validatePage",
                    !.invoked = @ \cup {i}]
       IN IF i + 1 >= Len(M.resolvedUrls) THEN M1
          ELSE emit(M1, PageFetching(i + 1, M.resolvedUrls[i + 2].resolved))

\* Mutant of RunQueue: the limiter hands its slot to the second queued task
\* before the first
RunQueue_SecondFirst(M, i) ==
  LET admitted == IF Len(M.resolvedUrls) < 2 \/ i > 1 THEN i ELSE 1 - i
  IN IF i >= Len(M.resolvedUrls) \/ Skips(aborted) THEN Finish(M)
     ELSE [emit(M, PageFetching(admitted, M.resolvedUrls[admitted + 1].resolved)) EXCEPT
             !.pc = "tasks", !.running = i, !.taskAt = "validatePage",
             !.invoked = @ \cup {admitted}]

RECURSIVE RunQueue(_, _)
\* The limiter (pLimit(1)) hands its slot to the queued task of index i; a task
\* that returns at once frees the slot for the next one in the same turn, and
\* once no task is left Promise.all(tasks) resolves.
RunQueue(M, i) ==
  IF i >= Len(M.resolvedUrls) THEN Finish(M)
  ELSE IF Skips(aborted) THEN RunQueue(M, i + 1)
  ELSE [emit(M, PageFetching(i, M.resolvedUrls[i + 1].resolved)) EXCEPT
          !.pc = "tasks", !.running = i, !.taskAt = "validatePage",
          !.invoked = @ \cup {i}]

\* Mutant of ResolveStage: sitemap_done is emitted after the tasks were started
ResolveStage_DoneAfterStart(M, base) ==
  IF M.rawUrls = <<>>
    THEN [endJob(emit(M, SitemapError("No <url> entries found in the sitemap XML."))) EXCEPT
            !.pc = "returned"]
  ELSE IF ~Parseable(ServerBaseUrl(base, M.rawUrls))
    THEN [M EXCEPT !.pc = "rejected"]
  ELSE LET b == ServerBaseUrl(base, M.rawUrls)
           r == ResolveAll(M.rawUrls, b)
           M1 == [M EXCEPT !.baseUrl = b, !.resolvedUrls = r, !.results = NewArray(Len(r))]
       IN emit(RunQueue(M1, 0), SitemapDone(r))

\* Mutant of ResolveStage: an empty list is not an error, the run goes on with no page
ResolveStage_EmptyGoesOn(M, base) ==
  IF M.rawUrls = <<>>
    THEN RunQueue([emit(M, SitemapDone(<<>>)) EXCEPT !.results = <<>>], 0)
  ELSE IF ~Parseable(ServerBaseUrl(base, M.rawUrls))
    THEN [M EXCEPT !.pc = "rejected"]
  ELSE LET b == ServerBaseUrl(base, M.rawUrls)
           r == ResolveAll(M.rawUrls, b)
           M1 == [M EXCEPT !.baseUrl = b, !.resolvedUrls = r]
           M2 == [emit(M1, SitemapDone(r)) EXCEPT !.results = NewArray(Len(r))]
       IN RunQueue(M2, 0)

\* runValidation from the empty check to the scheduling of the tasks
ResolveStage(M, base) ==
  IF M.rawUrls = <<>>
    THEN [endJob(emit(M, SitemapError("No <url> entries found in the sitemap XML."))) EXCEPT
            !.pc = "returned"]
  ELSE IF ~Parseable(ServerBaseUrl(base, M.rawUrls))
    THEN [M EXCEPT !.pc = "rejected"]
  ELSE LET b == ServerBaseUrl(base, M.rawUrls)
           r == ResolveAll(M.rawUrls, b)
           M1 == [M EXCEPT !.baseUrl = b, !.resolvedUrls = r]
           M2 == [emit(M1, SitemapDone(r)) EXCEPT !.results = NewArray(Len(r))]
       IN RunQueue(M2, 0)

\* The for loop over result.sitemapUrls, entered at position k (1-based)
FetchNext(M, k, base) ==
  IF k > Len(M.sitemapUrls)
    THEN ResolveStage(emit(M, IndexResolved(Len(M.rawUrls))), base)
  ELSE [emit(M, IndexFetching(M.sitemapUrls[k])) EXCEPT !.pc = "resolving", !.nextSitemap = k]

\* runValidation from its call to its first await
StartValidation(M, xml, base) ==
  LET result == parseUrlsFromXml(xml) IN
  IF result.kind = "throw"
    THEN [endJob(emit(M, SitemapError("Unrecognized XML format."))) EXCEPT !.pc = "returned"]
  ELSE IF result.kind = "urls"
    THEN ResolveStage([M EXCEPT !.rawUrls = result.urls], base)
  ELSE FetchNext([emit(M, IndexResolving(result.urls)) EXCEPT
                    !.sitemapUrls = result.urls, !.rawUrls = <<>>], 1, base)

\* What the awaited axios.get of a nested sitemap settles with: a rejection or a document
NestedDocs(s, room) ==
  {[root |-> "urlset", entries |-> [j \in 1..n |-> NestedPageUrl(s, j)]] : n \in 0..room}
    \cup {[root |-> "sitemapindex", entries |-> <<NestedSitemapUrl(9)>>], OtherXml}
NestedOutcomes(s, room) ==
  {[ok |-> FALSE, doc |-> OtherXml]} \cup [ok : {TRUE}, doc : NestedDocs(s, room)]

\* The answers of the nested sitemaps so far, with that of url added
Answered(w, url, outcome) ==
  [u \in DOMAIN w \cup {url} |->
     IF u = url
       THEN [ok |-> outcome.ok, root |-> outcome.doc.root, entries |-> outcome.doc.entries]
     ELSE w[u]]

\* Mutant of AfterNestedFetch: a nested sitemap that fails is passed over in silence
AfterNestedFetch_SilentFailure(M, k, outcome) ==
  LET url == M.sitemapUrls[k]
      nested == parseUrlsFromXml(outcome.doc)
  IN IF outcome.ok /\ nested.kind = "urls"
       THEN emit([M EXCEPT !.rawUrls = @ \o nested.urls], IndexFetched(url, Len(nested.urls)))
     ELSE M

\* The body of the for loop after its await, for the sitemap at position k
AfterNestedFetch(M, k, outcome) ==
  LET url == M.sitemapUrls[k]
      nested == parseUrlsFromXml(outcome.doc)
  IN IF ~outcome.ok \/ nested.kind = "throw" THEN emit(M, IndexFetchError(url))
     ELSE IF nested.kind = "urls"
       THEN emit([M EXCEPT !.rawUrls = @ \o nested.urls], IndexFetched(url, Len(nested.urls)))
     ELSE M

\* Mutant of AfterValidatePage: page_done is emitted only for a check that succeeded
AfterValidatePage_NoDoneOnFailure(M, outcome) ==
  LET index == M.running
      u == M.resolvedUrls[index + 1]
      M0 == [M EXCEPT !.calls = outcome.calls,
                      !.rejected = IF outcome.ok THEN @ ELSE @ \cup {index}]
      M1 == IF outcome.ok THEN emit(M0, PageValidating(index, u.resolved)) ELSE M0
      result == IF outcome.ok THEN SuccessResult(u, outcome.messages) ELSE FailedResult(u)
      M2 == [M1 EXCEPT !.results = ArraySet(@, index, result)]
  IN [(IF outcome.ok THEN emit(M2, PageDone(index, result)) ELSE M2) EXCEPT !.taskAt = "sleep"]

\* Mutant of AfterValidatePage: page_done is emitted ahead of page_validating
AfterValidatePage_DoneFirst(M, outcome) ==
  LET index == M.running
      u == M.resolvedUrls[index + 1]
      M0 == [M EXCEPT !.calls = outcome.calls,
                      !.rejected = IF outcome.ok THEN @ ELSE @ \cup {index}]
      result == IF outcome.ok THEN SuccessResult(u, outcome.messages) ELSE FailedResult(u)
      M1 == emit([M0 EXCEPT !.results = ArraySet(@, index, result)], PageDone(index, result))
  IN [(IF outcome.ok THEN emit(M1, PageValidating(index, u.resolved)) ELSE M1) EXCEPT
        !.taskAt = "sleep"]

\* Mutant of AfterValidatePage: every task writes its result into slot 0
AfterValidatePage_SharedSlot(M, outcome) ==
  LET index == M.running
      u == M.resolvedUrls[index + 1]
      M0 == [M EXCEPT !.calls = outcome.calls,
                      !.rejected = IF outcome.ok THEN @ ELSE @ \cup {index}]
      M1 == IF outcome.ok THEN emit(M0, PageValidating(index, u.resolved)) ELSE M0
      result == IF outcome.ok THEN SuccessResult(u, outcome.messages) ELSE FailedResult(u)
      M2 == [M1 EXCEPT !.results = ArraySet(@, 0, result)]
  IN [emit(M2, PageDone(index, result)) EXCEPT !.taskAt = "sleep"]

\* Mutant of AfterValidatePage: the task returns after page_done without
\* sleeping, and the limiter hands the slot on in the same turn
AfterValidatePage_NoSleep(M, outcome) ==
  LET index == M.running
      u == M.resolvedUrls[index + 1]
      M0 == [M EXCEPT !.calls = outcome.calls,
                      !.rejected = IF outcome.ok THEN @ ELSE @ \cup {index}]
      M1 == IF outcome.ok THEN emit(M0, PageValidating(index, u.resolved)) ELSE M0
      result == IF outcome.ok THEN SuccessResult(u, outcome.messages) ELSE FailedResult(u)
      M2 == [M1 EXCEPT !.results = ArraySet(@, index, result)]
  IN RunQueue(Release(emit(M2, PageDone(index, result))), index + 1)

\* The task body after validatePage settled, up to await sleep(1000)
AfterValidatePage(M, outcome) ==
  LET index == M.running
      u == M.resolvedUrls[index + 1]
      M0 == [M EXCEPT !.calls = outcome.calls,
                      !.rejected = IF outcome.ok THEN @ ELSE @ \cup {index}]
      M1 == IF outcome.ok THEN emit(M0, PageValidating(index, u.resolved)) ELSE M0
      result == IF outcome.ok THEN SuccessResult(u, outcome.messages) ELSE FailedResult(u)
      M2 == [M1 EXCEPT !.results = ArraySet(@, index, result)]
  IN [emit(M2, PageDone(index, result)) EXCEPT !.taskAt = "sleep"]

\* cli main: Math.max(0, parseInt(options.delay, 10) || 1000)
ParseDelay(opt) ==
  LET parsed == IF opt.nan \/ opt.n = 0 THEN 1000 ELSE opt.n
  IN IF parsed < 0 THEN 0 ELSE parsed

\* cli main: options.base ?? getOrigin(sitemapUrl)
CliBaseUrl(base, sitemapUrl) == IF base # "absent" THEN base ELSE getOrigin(sitemapUrl)

\* cli main after Promise.all(tasks): summary and report, up to await writeFile
CliFinish(M, sitemapUrl) ==
  LET sum == Summarize(M.results, sitemapUrl)
  IN [M EXCEPT !.summary = sum, !.report = generateHtmlReport(sum, M.results),
               !.pc = "writing", !.running = -1, !.taskAt = "none"]

\* cli: the limiter hands its slot to the queued task of index i, which runs to
\* its await validatePage; once no task is left Promise.all(tasks) resolves
CliRunQueue(M, i, sitemapUrl) ==
  IF i >= Len(M.resolvedUrls) THEN CliFinish(M, sitemapUrl)
  ELSE [M EXCEPT !.pc = "tasks", !.running = i, !.taskAt = "validatePage",
                 !.invoked = @ \cup {i}]

\* cli main after extractUrlsFromSitemap settled, up to the next await or exit
CliAfterExtract(M0, outcome, opts) ==
  LET M == [M0 EXCEPT !.fetched = outcome.fetched] IN
  IF ~outcome.ok THEN [M EXCEPT !.pc = "exited", !.exitCode = 1]
  ELSE IF outcome.urls = <<>> THEN [M EXCEPT !.pc = "exited", !.exitCode = 0, !.rawUrls = <<>>]
  ELSE IF ~Parseable(M.baseUrl)
    THEN [M EXCEPT !.pc = "exited", !.exitCode = 1, !.rawUrls = outcome.urls]
  ELSE CliRunQueue([M EXCEPT !.rawUrls = outcome.urls,
                             !.resolvedUrls = ResolveAll(outcome.urls, M.baseUrl),
                             !.results = <<>>], 0, opts.sitemap)

\* cli task body after validatePage settled, to the end of the task
CliAfterValidatePage(M, outcome, opts) ==
  LET index == M.running
      u == M.resolvedUrls[index + 1]
      result == IF outcome.ok THEN SuccessResult(u, outcome.messages) ELSE FailedResult(u)
      M1 == [M EXCEPT !.results = ArraySet(@, index, result),
                      !.calls = outcome.calls,
                      !.rejected = IF outcome.ok THEN @ ELSE @ \cup {index}]
  IN IF ParseDelay(opts.delay) > 0 THEN [M1 EXCEPT !.taskAt = "sleep"]
     ELSE CliRunQueue(Release(M1), index + 1, opts.sitemap)

\* Mutant of CliAfterWrite: pages with warnings make the exit status 1 as well
CliAfterWrite_WarningsFail(M, ok) ==
  IF ~ok THEN [M EXCEPT !.pc = "fatal", !.exitCode = 1]
  ELSE [M EXCEPT !.pc = "exited",
                 !.exitCode = IF M.summary.pagesWithErrors > 0 \/ M.summary.pagesFailed > 0
                                   \/ M.summary.pagesWithWarnings > 0
                                THEN 1 ELSE 0]

\* cli main after writeFile settled: printSummary and the exit status; a
\* writeFile that rejects goes to main().catch ("Fatal error", exit 1)
CliAfterWrite(M, ok) ==
  IF ~ok THEN [M EXCEPT !.pc = "fatal", !.exitCode = 1]
  ELSE [M EXCEPT !.pc = "exited",
                 !.exitCode = IF M.summary.pagesWithErrors > 0 \/ M.summary.pagesFailed > 0
                                THEN 1 ELSE 0]

---------------------------------------------------------------------------
(* Server actions *)

JobExists == program = "server" /\ pc # "idle"

\* POST /api/validate: createJob(), runValidation(job, params) up to its first await
Submit(xml, base) ==
  /\ program = "server"
  /\ pc = "idle"
  /\ params' = [xml |-> xml, base |-> base]
  /\ Install(StartValidation(Cur, xml, base))
  /\ UNCHANGED <<program, resolution, mapped, listeners, aborted, abortCalls, abortIndex, web>>

\* The awaited axios.get of a nested sitemap settles; the loop goes on to its next await
NestedFetchReturns ==
  /\ program = "server"
  /\ pc = "resolving"
  /\ \E outcome \in NestedOutcomes(sitemapUrls[nextSitemap], MaxNestedUrls - Len(rawUrls)) :
       /\ Install(FetchNext(AfterNestedFetch(Cur, nextSitemap, outcome), nextSitemap + 1,
                            params.base))
       /\ web' = Answered(web, sitemapUrls[nextSitemap], outcome)
  /\ UNCHANGED <<program, resolution, mapped, params, listeners, aborted, abortCalls, abortIndex>>

\* The awaited validatePage of the running task settles
ValidatePageReturns(c) ==
  /\ program = "server"
  /\ pc = "tasks"
  /\ taskAt = "validatePage"
  /\ Install(AfterValidatePage(Cur, validatePage(resolvedUrls[running + 1].resolved, c)))
  /\ UNCHANGED <<program, resolution, mapped, params, listeners, aborted, abortCalls, abortIndex, web>>

\* The running task's sleep(1000) elapses: the slot goes to the next task
SleepElapsed ==
  /\ program = "server"
  /\ pc = "tasks"
  /\ taskAt = "sleep"
  /\ Install(RunQueue(Release(Cur), running + 1))
  /\ UNCHANGED <<program, resolution, mapped, params, listeners, aborted, abortCalls, abortIndex, web>>

\* POST /api/abort/:id
Abort ==
  /\ JobExists
  /\ abortCalls < MaxAborts
  /\ aborted' = TRUE
  /\ Install(endJob(emit(Cur, Cancelled)))
  /\ abortCalls' = abortCalls + 1
  /\ abortIndex' = IF aborted THEN abortIndex ELSE running
  /\ UNCHANGED <<program, resolution, mapped, params, listeners, web>>

\* GET /api/stream/:id: replay, then end (job done) or register the listener.
\* Connections are numbered in their order of arrival.
Attach(o) ==
  /\ JobExists
  /\ response[o] = "none"
  /\ \A p \in Observers : p < o => response[p] # "none"
  /\ delivered' = [delivered EXCEPT ![o] = buffered]
  /\ IF done
       THEN response' = [response EXCEPT ![o] = "ended"] /\ UNCHANGED listeners
       ELSE response' = [response EXCEPT ![o] = "open"] /\ listeners' = listeners \cup {o}
  /\ UNCHANGED <<program, resolution, mapped, params, pc, buffered, report, done, aborted, sitemapUrls,
                 nextSitemap, rawUrls, baseUrl, resolvedUrls, results, running, taskAt,
                 summary, exitCode, abortCalls, abortIndex, invoked, rejected, released,
                 calls, fetched, web>>

\* Mutant of Close: the close of one connection removes every listener
Close_RemovesAll(o) ==
  /\ o \in listeners
  /\ listeners' = {}
  /\ response' = [response EXCEPT ![o] = "closed"]
  /\ UNCHANGED <<program, resolution, mapped, params, pc, buffered, report, done, aborted, sitemapUrls,
                 nextSitemap, rawUrls, baseUrl, resolvedUrls, results, running, taskAt,
                 summary, exitCode, delivered, abortCalls, abortIndex, invoked, rejected,
                 released, calls, fetched, web>>

\* req 'close' of a connection that registered a listener
Close(o) ==
  /\ o \in listeners
  /\ listeners' = listeners \ {o}
  /\ response' = [response EXCEPT ![o] = "closed"]
  /\ UNCHANGED <<program, resolution, mapped, params, pc, buffered, report, done, aborted, sitemapUrls,
                 nextSitemap, rawUrls, baseUrl, resolvedUrls, results, running, taskAt,
                 summary, exitCode, delivered, abortCalls, abortIndex, invoked, rejected,
                 released, calls, fetched, web>>

---------------------------------------------------------------------------
(* Command line actions *)

CliFrame == UNCHANGED <<program, resolution, mapped, listeners, aborted, abortCalls, abortIndex>>

\* main() from its call to await extractUrlsFromSitemap(sitemapUrl)
CliStart(base, delay) ==
  /\ program = "cli"
  /\ pc = "idle"
  /\ params' = [sitemap |-> CliSitemapUrl, base |-> base, delay |-> delay]
  /\ Install([Cur EXCEPT !.pc = "extracting", !.baseUrl = CliBaseUrl(base, CliSitemapUrl)])
  /\ UNCHANGED web
  /\ CliFrame

\* The awaited extractUrlsFromSitemap settles
CliExtractReturns(w) ==
  /\ program = "cli"
  /\ pc = "extracting"
  /\ web' = w
  /\ Install(CliAfterExtract(Cur, extractUrlsFromSitemap(w, params.sitemap, 0), params))
  /\ UNCHANGED params
  /\ CliFrame

\* The awaited validatePage of the running task settles
CliValidatePageReturns(c) ==
  /\ program = "cli"
  /\ pc = "tasks"
  /\ taskAt = "validatePage"
  /\ Install(CliAfterValidatePage(Cur, validatePage(resolvedUrls[running + 1].resolved, c),
                                  params))
  /\ UNCHANGED <<params, web>>
  /\ CliFrame

\* The running task's sleep(delay) elapses
CliSleepElapsed ==
  /\ program = "cli"
  /\ pc = "tasks"
  /\ taskAt = "sleep"
  /\ Install(CliRunQueue(Release(Cur), running + 1, params.sitemap))
  /\ UNCHANGED <<params, web>>
  /\ CliFrame

\* The awaited writeFile settles
CliWriteReturns(ok) ==
  /\ program = "cli"
  /\ pc = "writing"
  /\ Install(CliAfterWrite(Cur, ok))
  /\ UNCHANGED <<params, web>>
  /\ CliFrame

---------------------------------------------------------------------------

Init ==
  /\ program \in {"server", "cli"}
  /\ params = [xml |-> OtherXml, base |-> ""]
  /\ pc = "idle"
  /\ buffered = <<>>
  /\ listeners = {}
  /\ report = Null
  /\ done = FALSE
  /\ aborted = FALSE
  /\ sitemapUrls = <<>>
  /\ nextSitemap = 0
  /\ rawUrls = <<>>
  /\ baseUrl = ""
  /\ resolvedUrls = <<>>
  /\ results = <<>>
  /\ running = -1
  /\ taskAt = "none"
  /\ summary = Null
  /\ exitCode = -1
  /\ response = [o \in Observers |-> "none"]
  /\ delivered = [o \in Observers |-> <<>>]
  /\ abortCalls = 0
  /\ abortIndex = -1
  /\ invoked = {}
  /\ rejected = {}
  /\ released = {}
  /\ calls = <<>>
  /\ fetched = {}
  /\ web = <<>>
  /\ resolution = Null
  /\ mapped = Null

Next ==
  \/ \E xml \in Xmls, base \in BaseInputs : Submit(xml, base)
  \/ NestedFetchReturns
  \/ \E c \in CollaboratorOutcomes : ValidatePageReturns(c)
  \/ SleepElapsed
  \/ Abort
  \/ \E o \in Observers : Attach(o)
  \/ \E o \in Observers : Close(o)
  \/ \E base \in CliBaseInputs, delay \in DelayInputs : CliStart(base, delay)
  \/ \E w \in Webs : CliExtractReturns(w)
  \/ \E c \in CollaboratorOutcomes : CliValidatePageReturns(c)
  \/ CliSleepElapsed
  \/ \E ok \in BOOLEAN : CliWriteReturns(ok)

Spec == Init /\ [][Next]_vars

\* The pipeline alone: the job with no stream connection
NextPipeline ==
  \/ \E xml \in Xmls, base \in BaseInputs : Submit(xml, base)
  \/ NestedFetchReturns
  \/ \E c \in CollaboratorOutcomes : ValidatePageReturns(c)
  \/ SleepElapsed
  \/ Abort
  \/ \E base \in CliBaseInputs, delay \in DelayInputs : CliStart(base, delay)
  \/ \E w \in Webs : CliExtractReturns(w)
  \/ \E c \in CollaboratorOutcomes : CliValidatePageReturns(c)
  \/ CliSleepElapsed
  \/ \E ok \in BOOLEAN : CliWriteReturns(ok)

SpecPipeline == Init /\ [][NextPipeline]_vars

\* The submitted documents of the runs that follow the streams: urlsets whose
\* entries all have a location
StreamXmls ==
  {[root |-> "urlset", entries |-> [k \in 1..n |-> PageUrl(k)]] : n \in 1..MaxStreamEntries}

\* The server job and its stream connections, on those documents
NextStream ==
  \/ \E xml \in StreamXmls : Submit(xml, "")
  \/ \E c \in CollaboratorOutcomes : ValidatePageReturns(c)
  \/ SleepElapsed
  \/ Abort
  \/ \E o \in Observers : Attach(o)
  \/ \E o \in Observers : Close(o)

SpecStream == Init /\ [][NextStream]_vars

\* The discovered URLs given to resolveUrlToBase on its own: http and https
\* URLs with and without a port, a path and a query, and a URL of a
\* non-special scheme with an opaque path ("urn:page")
LocUrls ==
  {Url(scheme, host, port, path, query) :
     scheme \in SpecialSchemes, host \in {"example.com", "www.example.com"},
     port \in {"", "8080"}, path \in 0..MaxPath, query \in {"", "?page=2"}}
    \cup {Url("http", "example.com", "443", 1, ""), OpaqueUrl("urn", 1)}

\* The base URLs given to it: http and https origins of a local server, and
\* the text "localhost:3000", which new URL() reads as scheme "localhost"
\* with the opaque path "3000"
BaseUrls ==
  {Url(scheme, host, port, 0, "") :
     scheme \in SpecialSchemes, host \in {"localhost", "127.0.0.1"}, port \in {"", "3000"}}
    \cup {OpaqueUrl("localhost", 3000)}

\* A call resolveUrlToBase(locUrl, base) with two strings that new URL() accepts
ResolveUrl(locUrl, base) ==
  /\ resolution' = [loc |-> locUrl, base |-> base, result |-> resolveUrlToBase(locUrl, base)]
  /\ UNCHANGED <<program, params, pc, buffered, listeners, report, done, aborted,
                 sitemapUrls, nextSitemap, rawUrls, baseUrl, resolvedUrls, results,
                 running, taskAt, summary, exitCode, response, delivered,
                 abortCalls, abortIndex, invoked, rejected, released, calls, fetched, web,
                 mapped>>

NextUrl == \E locUrl \in LocUrls, base \in BaseUrls : ResolveUrl(locUrl, base)

\* resolveUrlToBase on its own, on the URLs above
SpecUrl == Init /\ [][NextUrl]_vars

\* The checker answers given to mapMessages on its own: up to MaxMessages
\* messages of the types and subTypes the checker documents, and of a type
\* it does not
RawTypes == {"error", "info", "non-document-error", "warning"}
RawSubTypes == {"none", "warning", "fatal", "io"}
RawAnswers ==
  UNION {[1..n -> {RawMsg(t, st) : t \in RawTypes, st \in RawSubTypes}] : n \in 0..MaxMessages}

\* The one call mapMessages(data), and the status the messages give a page
MapAnswer(data) ==
  /\ mapped = Null
  /\ mapped' = [data |-> data, messages |-> mapMessages(data),
                status |-> Classify(mapMessages(data))]
  /\ UNCHANGED <<program, params, pc, buffered, listeners, report, done, aborted,
                 sitemapUrls, nextSitemap, rawUrls, baseUrl, resolvedUrls, results,
                 running, taskAt, summary, exitCode, response, delivered,
                 abortCalls, abortIndex, invoked, rejected, released, calls, fetched, web,
                 resolution>>

NextChecker == \E data \in RawAnswers : MapAnswer(data)

\* mapMessages on its own, on the answers above
SpecChecker == Init /\ [][NextChecker]_vars

\* Where runValidation stands: the await it is suspended at
Position == <<pc, nextSitemap, running, taskAt>>

\* runValidation, suspended at an await (of a nested fetch, of validatePage or
\* of sleep), is resumed and moves on.  NestedFetchReturns, ValidatePageReturns
\* and SleepElapsed are the steps that change Position from such a state, and
\* each of them does.
Resume ==
  /\ program = "server"
  /\ pc \in {"resolving", "tasks"}
  /\ pc' \in {"resolving", "tasks", "returned", "rejected"}
  /\ nextSitemap' \in 0..MaxSitemaps
  /\ running' \in -1..(MaxEntries + MaxNestedUrls)
  /\ taskAt' \in {"none", "validatePage", "sleep"}

\* The pipeline with collaborators that always settle: every awaited nested
\* fetch, validatePage and sleep of the server job eventually resumes it.
\* Requests of the client (submit, abort) are under no obligation.
SpecLive == Init /\ [][NextPipeline]_vars /\ WF_Position(Resume)

---------------------------------------------------------------------------
(* Reading the event sequence *)

Positions(buf, type) == {i \in DOMAIN buf : buf[i].type = type}
CountType(buf, type) == Cardinality(Positions(buf, type))

PageEventTypes == {"page_fetching", "page_validating", "page_done"}
PagePositions(buf, type, index) == {i \in Positions(buf, type) : buf[i].index = index}
CountPage(buf, type, index) == Cardinality(PagePositions(buf, type, index))

TerminalTypes == {"sitemap_error", "cancelled", "done", "error"}
TerminalPositions(buf) == {i \in DOMAIN buf : buf[i].type \in TerminalTypes}

\* Number of pages of the job: the locations of the submitted urlset
SubmittedCount == Len(Locations(params.xml.entries))

\* A server job on a urlset with at least one location, never aborted, whose runValidation returned
CompletedUrlsetJob ==
  /\ program = "server"
  /\ pc = "returned"
  /\ params.xml.root = "urlset"
  /\ SubmittedCount >= 1
  /\ abortCalls = 0

\* The events of a completed urlset job end with one done and one stream_end,
\* and every page event has an index of the list and precedes the done
EndsWithDone ==
  /\ CountType(buffered, "done") = 1
  /\ CountType(buffered, "stream_end") = 1
  /\ Len(buffered) >= 2
  /\ buffered[Len(buffered)].type = "stream_end"
  /\ buffered[Len(buffered) - 1].type = "done"
  /\ \A i \in DOMAIN buffered :
       buffered[i].type \in PageEventTypes => buffered[i].index \in 0..(SubmittedCount - 1)

\* Status announced by the page_done of an index ("" when there is none)
DoneStatus(index) ==
  IF PagePositions(buffered, "page_done", index) = {} THEN ""
  ELSE buffered[CHOOSE i \in PagePositions(buffered, "page_done", index) : TRUE].status

---------------------------------------------------------------------------
(* Claims *)

\* C1: abort is idempotent: however many times abort was called, the job's
\* buffered events hold exactly one cancelled event.
C1_AbortIdempotent ==
  abortCalls >= 1 => CountType(buffered, "cancelled") = 1

\* C2: when abort was called after sitemap resolution finished (the cancelled
\* event follows sitemap_done), no done event is appended after the cancelled event.
C2_NoDoneAfterCancelled ==
  \A i, j \in DOMAIN buffered :
    (/\ i < j
     /\ buffered[i].type = "cancelled"
     /\ \E k \in 1..(i - 1) : buffered[k].type = "sitemap_done")
      => buffered[j].type # "done"

\* C3: once the job is terminal (job.done), no step appends to its buffered events.
C3_FrozenOnceTerminal ==
  [][done => buffered' = buffered]_vars

\* C4: the event sequence holds at most one stream_end; when present it is the
\* last event and directly follows one of sitemap_error, cancelled, done, error;
\* and the sequence holds at most one event of those four kinds.
C4_SingleTerminalEvent ==
  /\ CountType(buffered, "stream_end") <= 1
  /\ CountType(buffered, "stream_end") = 1 =>
       /\ buffered[Len(buffered)].type = "stream_end"
       /\ Len(buffered) >= 2
       /\ buffered[Len(buffered) - 1].type \in TerminalTypes
  /\ Cardinality(TerminalPositions(buffered)) <= 1

\* C5 as stated: a completed, never aborted job on a urlset with N locations has,
\* for each index 0..N-1, exactly one page_fetching, one page_validating and one
\* page_done, then exactly one done and one stream_end, whatever the checker answered.
C5_TriplesThenDone_Original ==
  CompletedUrlsetJob =>
    /\ EndsWithDone
    /\ \A index \in 0..(SubmittedCount - 1) :
         /\ CountPage(buffered, "page_fetching", index) = 1
         /\ CountPage(buffered, "page_validating", index) = 1
         /\ CountPage(buffered, "page_done", index) = 1

\* C5 amended: a completed, never aborted job on a urlset with N >= 1 locations
\* has, for each index 0..N-1, exactly one page_fetching and one page_done, and
\* one page_validating if the check of that page succeeded and none if it
\* failed; then exactly one done and one stream_end.
C5_TriplesThenDone ==
  CompletedUrlsetJob =>
    /\ EndsWithDone
    /\ \A index \in 0..(SubmittedCount - 1) :
         /\ CountPage(buffered, "page_fetching", index) = 1
         /\ CountPage(buffered, "page_done", index) = 1
         /\ CountPage(buffered, "page_validating", index) =
              (IF DoneStatus(index) = "failed" THEN 0 ELSE 1)

\* C5 witness: a completed job of three pages, one failed and one checked
C5_Witness ==
  /\ CompletedUrlsetJob
  /\ SubmittedCount = 3
  /\ DoneStatus(0) = "failed"
  /\ DoneStatus(1) = "errors"
  /\ DoneStatus(2) = "clean"

\* An observer that attached after the job became terminal: its response was
\* ended after the replay and its listener was never registered
LateObserver(o) == response[o] = "ended" /\ o \notin listeners

\* C6: an observer attaching to a terminal job is delivered the whole buffered
\* sequence, whose last event is stream_end, is closed without joining the
\* listeners, and is delivered nothing afterwards.
C6_LateAttachReplaysAll ==
  [][\A o \in Observers :
       /\ (response[o] = "none" /\ response'[o] # "none" /\ done) =>
            /\ delivered'[o] = buffered
            /\ buffered # <<>>
            /\ buffered[Len(buffered)].type = "stream_end"
            /\ response'[o] = "ended"
            /\ o \notin listeners'
       /\ LateObserver(o) => delivered'[o] = delivered[o]]_vars

\* C7: every observer whose listener is attached has been delivered exactly
\* the job's buffered events, in every reachable state.
C7_DeliveredEqualsBuffered ==
  \A o \in listeners : delivered[o] = buffered

\* The four status counts of a summary add up to its totalPages
CountsAddUp(sum) ==
  sum.pagesClean + sum.pagesWithWarnings + sum.pagesWithErrors + sum.pagesFailed
    = sum.totalPages

\* C8: in every summary produced (the server's done event, the summary of
\* runValidation or of the cli's main), pagesClean + pagesWithWarnings +
\* pagesWithErrors + pagesFailed = totalPages.
C8_SummaryCountsAddUp ==
  /\ summary # Null => CountsAddUp(summary)
  /\ \A i \in Positions(buffered, "done") : CountsAddUp(buffered[i].summary)

\* C8 witness: a server job announced a summary of three pages, some failed,
\* some with errors
C8_Witness ==
  /\ program = "server"
  /\ \E i \in Positions(buffered, "done") :
       /\ buffered[i].summary.totalPages = 3
       /\ buffered[i].summary.pagesFailed = 1
       /\ buffered[i].summary.pagesWithErrors = 1
       /\ buffered[i].summary.pagesWithWarnings = 1

\* C9: the totalPages of every done event equals the count announced by the
\* job's sitemap_done event.
C9_TotalPagesIsResolvedCount ==
  \A i \in Positions(buffered, "done") :
    \E j \in Positions(buffered, "sitemap_done") :
      buffered[i].summary.totalPages = buffered[j].count

\* Abort first set the flag while the task of index abortIndex held the slot
AbortedInFlight == program = "server" /\ abortIndex >= 0

\* No trace of the task of an index: no page event, no result, no checker call
TaskSkipped(index) ==
  /\ \A type \in PageEventTypes : CountPage(buffered, type, index) = 0
  /\ results[index + 1] = Null
  /\ index \notin invoked

\* C10 as stated: when abort is set while task k is in flight, every task of
\* index <= k has, once runValidation returned, emitted its full triple
\* (page_fetching, page_validating, page_done) and written its result, and every
\* task of index > k emits no page event, writes no result and calls no checker.
C10_CooperativeCancel_Original ==
  AbortedInFlight =>
    /\ \A index \in (abortIndex + 1)..(Len(resolvedUrls) - 1) : TaskSkipped(index)
    /\ pc = "returned" =>
         \A index \in 0..abortIndex :
           /\ CountPage(buffered, "page_fetching", index) = 1
           /\ CountPage(buffered, "page_validating", index) = 1
           /\ CountPage(buffered, "page_done", index) = 1
           /\ results[index + 1] # Null

\* C10 amended: when abort is set while task k is in flight, every task of
\* index <= k has, once runValidation returned, emitted page_fetching and
\* page_done (and page_validating if and only if its check succeeded) and
\* written its result, and every task of index > k emits no page event, writes
\* no result and calls no checker.
C10_CooperativeCancel ==
  AbortedInFlight =>
    /\ \A index \in (abortIndex + 1)..(Len(resolvedUrls) - 1) : TaskSkipped(index)
    /\ pc = "returned" =>
         \A index \in 0..abortIndex :
           /\ CountPage(buffered, "page_fetching", index) = 1
           /\ CountPage(buffered, "page_done", index) = 1
           /\ results[index + 1] # Null
           /\ results[index + 1].status = DoneStatus(index)
           /\ CountPage(buffered, "page_validating", index) =
                (IF results[index + 1].status = "failed" THEN 0 ELSE 1)

\* C10 witness: abort arrived while task 1 of 3 awaited the checker;
\* runValidation returned with tasks 0 and 1 recorded and task 2 skipped
C10_Witness ==
  /\ AbortedInFlight
  /\ pc = "returned"
  /\ Len(resolvedUrls) = 3
  /\ abortIndex = 1
  /\ results[1] # Null
  /\ results[2] # Null
  /\ CountPage(buffered, "page_validating", 1) = 1
  /\ \E i \in Positions(buffered, "cancelled") :
       \E j \in PagePositions(buffered, "page_validating", 1) : i < j
  /\ TaskSkipped(2)

\* The result recorded for the page of an index is that of a failed check
RecordedAsFailed(index) ==
  /\ Len(results) >= index + 1
  /\ results[index + 1] # Null
  /\ results[index + 1].status = "failed"
  /\ results[index + 1].messages = <<>>
  /\ results[index + 1].errorMessage # ""

\* Every page of the list has a result
AllPagesRecorded ==
  /\ Len(results) = Len(resolvedUrls)
  /\ \A index \in 0..(Len(resolvedUrls) - 1) : results[index + 1] # Null /\ index \in invoked

\* C11: a page whose check (validatePage) failed is recorded with status failed,
\* no message and an errorMessage, and the server emits one page_done with
\* status failed for it; the failure does not end a job that was not aborted;
\* and once the run of a non-aborted job is over every page has a result and
\* the summary (the server's done event, the cli's summary) counts exactly the
\* failed checks in pagesFailed.
C11_FailureIsLocal ==
  /\ \A index \in rejected :
       /\ RecordedAsFailed(index)
       /\ program = "server" =>
            CountPage(buffered, "page_done", index) = 1 /\ DoneStatus(index) = "failed"
  /\ (program = "server" /\ abortCalls = 0 /\ pc = "tasks") => ~done
  /\ (program = "server" /\ abortCalls = 0 /\ pc = "returned" /\ resolvedUrls # <<>>) =>
       /\ AllPagesRecorded
       /\ \A index \in 0..(Len(resolvedUrls) - 1) : CountPage(buffered, "page_done", index) = 1
       /\ CountType(buffered, "done") = 1
       /\ \A i \in Positions(buffered, "done") :
            buffered[i].summary.pagesFailed = Cardinality(rejected)
       /\ done
  /\ (program = "cli" /\ summary # Null) =>
       /\ AllPagesRecorded
       /\ summary.pagesFailed = Cardinality(rejected)

\* C11 witness: a server job of three pages, never aborted, whose second check
\* failed, reached done with three pages of which one failed
C11_Witness ==
  /\ program = "server"
  /\ abortCalls = 0
  /\ pc = "returned"
  /\ Len(resolvedUrls) = 3
  /\ rejected = {1}
  /\ \E i \in Positions(buffered, "done") :
       buffered[i].summary.totalPages = 3 /\ buffered[i].summary.pagesFailed = 1

\* The submitted XML was recognised and its resolution collected no URL:
\* runValidation returned from its empty check
ResolvedToNothing ==
  /\ program = "server"
  /\ pc = "returned"
  /\ params.xml.root # "other"
  /\ rawUrls = <<>>

\* C12: when resolution yields zero URLs (an empty urlset, or an index whose
\* nested sitemaps contribute none), the job has emitted sitemap_error directly
\* followed by stream_end, is terminal, and its events never hold a
\* sitemap_done, page_fetching, page_validating, page_done or done.
C12_EmptyIsSitemapError ==
  ResolvedToNothing =>
    /\ done
    /\ \E i \in Positions(buffered, "sitemap_error") :
         i + 1 <= Len(buffered) /\ buffered[i + 1].type = "stream_end"
    /\ \A type \in PageEventTypes \cup {"sitemap_done", "done"} : CountType(buffered, type) = 0

\* C12 witness: an index of two nested sitemaps, both requested, that
\* contributed no URL
C12_Witness ==
  /\ ResolvedToNothing
  /\ params.xml.root = "sitemapindex"
  /\ CountType(buffered, "sitemapindex_fetching") = 2
  /\ CountType(buffered, "sitemapindex_fetched") = 1

\* C13: a job whose submitted XML has neither a urlset nor a sitemapindex root
\* has, as its whole event sequence, sitemap_error then stream_end; no page
\* task was scheduled.
C13_UnrecognizedXmlSequence ==
  (program = "server" /\ pc # "idle" /\ params.xml.root = "other") =>
    /\ Len(buffered) = 2
    /\ buffered[1].type = "sitemap_error"
    /\ buffered[2].type = "stream_end"
    /\ invoked = {}

\* C14: when URL resolution throws after the sitemap was parsed (runValidation
\* rejected), the job is terminal, its events end with a fatal error event
\* followed by stream_end, and no page task was scheduled.
C14_ResolutionFailureVisible ==
  (program = "server" /\ pc = "rejected") =>
    /\ done
    /\ Len(buffered) >= 2
    /\ buffered[Len(buffered) - 1].type = "error"
    /\ buffered[Len(buffered)].type = "stream_end"
    /\ invoked = {}

\* C15: every created job eventually becomes terminal (a stream_end is emitted
\* and job.done is true), when every collaborator call eventually settles.
C15_EveryJobTerminates ==
  JobExists ~> (done /\ CountType(buffered, "stream_end") >= 1)

\* The tasks that passed the abort check (their function body started) and
\* have not yet run to their end
InFlight == invoked \ released

\* C16: at every moment at most ConcurrencyLimit (1) page tasks of the job are
\* between their start (page_fetching) and the end of their inter-task delay.
C16_AtMostOneInFlight ==
  /\ Cardinality(InFlight) <= ConcurrencyLimit
  /\ program = "server" =>
       \A index \in InFlight : CountPage(buffered, "page_fetching", index) = 1

\* C16 witness: of three tasks, the first ran to its end, the second is in its
\* delay and the third has not started
C16_Witness ==
  /\ Len(resolvedUrls) = 3
  /\ released = {0}
  /\ InFlight = {1}
  /\ taskAt = "sleep"

\* The indices that page events carry
PageIndices ==
  {buffered[i].index : i \in {j \in DOMAIN buffered : buffered[j].type \in PageEventTypes}}

\* C17: for every index, each of page_fetching, page_validating and page_done
\* is emitted at most once; a page_validating or a page_done of the index comes
\* after its page_fetching; and a page_done of the index comes after the
\* page_validating of the index, if there is one.
C17_PageEventOrder ==
  \A index \in PageIndices :
    /\ \A type \in PageEventTypes : CountPage(buffered, type, index) <= 1
    /\ \A i \in PagePositions(buffered, "page_validating", index)
                \cup PagePositions(buffered, "page_done", index) :
         \E f \in PagePositions(buffered, "page_fetching", index) : f < i
    /\ \A d \in PagePositions(buffered, "page_done", index) :
         \A v \in PagePositions(buffered, "page_validating", index) : v < d

\* C17 witness: page 0 went through page_fetching, page_validating, page_done,
\* page 1 failed (page_fetching, page_done) and page 2 has started
C17_Witness ==
  /\ program = "server"
  /\ CountPage(buffered, "page_validating", 0) = 1
  /\ CountPage(buffered, "page_done", 0) = 1
  /\ CountPage(buffered, "page_validating", 1) = 0
  /\ CountPage(buffered, "page_done", 1) = 1
  /\ CountPage(buffered, "page_fetching", 2) = 1

\* A task's validatePage has settled and the task is in its delay
CheckSettled == pc = "tasks" /\ taskAt = "sleep"

\* The URL the running task passed to validatePage
CheckedUrl == resolvedUrls[running + 1].resolved

\* The URL names a loopback host
Loopback(url) == url.origin \in {"localhost", "127.0.0.1"}

\* The operations called, in order
CallOps == [i \in DOMAIN calls |-> calls[i].op]

\* C18: for a loopback URL validatePage never calls validateUrl (the checker's
\* fetch-by-URL): it fetches the markup and, if that succeeded, submits it.  For
\* any other URL it calls validateUrl first and makes no other call when that
\* succeeds; when it fails it fetches the markup and, if that succeeded,
\* submits it.  The page fails exactly when the last call made failed, which
\* for a non-loopback URL is a call of the fallback path.
C18_LoopbackBypass ==
  CheckSettled =>
    /\ Loopback(CheckedUrl) =>
         CallOps = (IF calls[1].ok THEN <<"fetchPageHtml", "validateHtml">>
                    ELSE <<"fetchPageHtml">>)
    /\ ~Loopback(CheckedUrl) =>
         /\ calls[1].op = "validateUrl"
         /\ calls[1].ok => Len(calls) = 1
         /\ ~calls[1].ok =>
              CallOps = (IF calls[2].ok THEN <<"validateUrl", "fetchPageHtml", "validateHtml">>
                         ELSE <<"validateUrl", "fetchPageHtml">>)
    /\ running \in rejected <=> ~calls[Len(calls)].ok
    /\ RecordedAsFailed(running) <=> ~calls[Len(calls)].ok

\* C18 witness: the server checked a localhost page by fetching and submitting
\* its markup, and the page has a result that is not failed
C18_Witness ==
  /\ program = "server"
  /\ CheckSettled
  /\ CheckedUrl.origin = "localhost"
  /\ calls = <<Call("fetchPageHtml", TRUE), Call("validateHtml", TRUE)>>
  /\ results[running + 1].status = "warnings"

\* A page of another host was checked through the fallback after validateUrl failed
C18_FallbackReached ==
  /\ CheckSettled
  /\ ~Loopback(CheckedUrl)
  /\ calls = <<Call("validateUrl", FALSE), Call("fetchPageHtml", TRUE), Call("validateHtml", TRUE)>>

\* extractUrlsFromSitemap has settled on a web
Extracted == program = "cli" /\ web # <<>>

\* Nesting depth of a sitemap of the web: --sitemap is at depth 0, SitemapAt(k)
\* at depth k, the sitemap listed beside the chain at depth 1
DepthOf(u) == IF u = SideSitemap THEN 1 ELSE u.path - SitemapAt(0).path

\* The web has a branch nested deeper than MAX_DEPTH
HasDeepBranch == \E u \in DOMAIN web : DepthOf(u) > MAX_DEPTH

\* C19: extractUrlsFromSitemap requests no sitemap nested deeper than
\* MAX_DEPTH = 3 (one at depth 3 is requested); when the web has such a
\* branch, the call still returns normally, with exactly the URLs of the other
\* branch, whatever the sitemaps beyond the bound would have answered.
C19_DepthBound ==
  Extracted =>
    /\ \A u \in DOMAIN web : DepthOf(u) > MAX_DEPTH => u \notin fetched
    /\ \A u \in DOMAIN web :
         (DepthOf(u) = MAX_DEPTH /\ HasDeepBranch) => u \in fetched
    /\ HasDeepBranch =>
         /\ SideSitemap \in fetched
         /\ rawUrls = Locations(web[SideSitemap].entries)
         /\ rawUrls = <<>> => exitCode = 0

\* C19 witness: a chain of indexes five levels deep ending in a sitemap that
\* cannot be fetched, beside a urlset of one page: the four levels within the
\* bound and the urlset were requested, and the run went on with the one page
C19_Witness ==
  /\ Extracted
  /\ SitemapAt(5) \in DOMAIN web
  /\ web[SitemapAt(5)] = FailedFetch
  /\ fetched = {SitemapAt(k) : k \in 0..3} \cup {SideSitemap}
  /\ Len(rawUrls) = 1
  /\ pc = "tasks"

\* A server job whose submitted XML is a sitemap index
IndexJob == program = "server" /\ pc # "idle" /\ params.xml.root = "sitemapindex"

\* The nested sitemap could not be fetched, or what it answered could not be parsed
NestedFailed(u) == ~web[u].ok \/ web[u].root = "other"

\* The URLs of a nested sitemap that was fetched and parsed as a urlset
NestedUrls(u) ==
  IF web[u].ok /\ web[u].root = "urlset"
    THEN {web[u].entries[j] : j \in DOMAIN web[u].entries} \ {NoLoc}
  ELSE {}

\* Number of events of a type that carry a sitemap URL
CountUrl(type, u) == Cardinality({i \in Positions(buffered, type) : buffered[i].url = u})

\* C20: in an index job, a nested sitemap whose fetch or parse failed has one
\* sitemapindex_fetch_error event for its URL; that failure does not end the
\* job (a job not aborted is not terminal while the loop runs); every nested
\* sitemap of the index is still requested (all of them once the loop is
\* over); and every URL of a nested sitemap fetched as a urlset is in the
\* collected list and, once the list was resolved, in the resolved list.
C20_NestedFailureIsLocal ==
  IndexJob =>
    /\ \A u \in DOMAIN web :
         /\ CountUrl("sitemapindex_fetch_error", u) = (IF NestedFailed(u) THEN 1 ELSE 0)
         /\ \A loc \in NestedUrls(u) :
              /\ \E i \in DOMAIN rawUrls : rawUrls[i] = loc
              /\ resolvedUrls # <<>> =>
                   \E i \in DOMAIN resolvedUrls : resolvedUrls[i].source = loc
    /\ (pc = "resolving" /\ abortCalls = 0) => (~done /\ CountType(buffered, "stream_end") = 0)
    /\ pc = "resolving" =>
         \A k \in 1..nextSitemap : CountUrl("sitemapindex_fetching", sitemapUrls[k]) = 1
    /\ pc # "resolving" =>
         \A k \in DOMAIN sitemapUrls :
           /\ CountUrl("sitemapindex_fetching", sitemapUrls[k]) = 1
           /\ sitemapUrls[k] \in DOMAIN web

\* C20 witness: the first nested sitemap of an index failed, the second was
\* fetched with one URL, which is in the resolved list, and the page task runs
C20_Witness ==
  /\ IndexJob
  /\ pc = "tasks"
  /\ abortCalls = 0
  /\ Len(sitemapUrls) = 2
  /\ Len(resolvedUrls) = 1
  /\ ~web[sitemapUrls[1]].ok
  /\ Cardinality(NestedUrls(sitemapUrls[2])) = 1

\* What a step leaves alone for the observers other than o and for the job
FrameOfDetach(o) ==
  /\ buffered' = buffered
  /\ done' = done /\ aborted' = aborted /\ report' = report
  /\ Position' = Position /\ results' = results /\ invoked' = invoked
  /\ \A p \in Observers \ {o} :
       /\ delivered'[p] = delivered[p]
       /\ response'[p] = response[p]
       /\ p \in listeners' <=> p \in listeners

\* C21: the step that detaches an observer (its listener leaves job.listeners)
\* changes nothing for the other observers or for the job, and at all times
\* every attached observer whose response is open has been delivered the whole
\* buffer: the remaining observers go on receiving every event.
C21_DetachFrame ==
  /\ [][\A o \in Observers : (o \in listeners /\ o \notin listeners') => FrameOfDetach(o)]_vars
  /\ [](\A p \in Observers : response[p] = "open" => (p \in listeners /\ delivered[p] = buffered))

\* C21 witness: observer 1 detached, and observer 2, still attached, has since
\* been delivered further events, up to the end of the buffer
C21_Witness ==
  /\ response[1] = "closed"
  /\ response[2] = "open"
  /\ 2 \in listeners
  /\ delivered[2] = buffered
  /\ Len(delivered[1]) >= 1
  /\ Len(delivered[2]) > Len(delivered[1])

\* C22: the page_fetching events of the job's event sequence appear in strictly
\* increasing index order (tasks are admitted in submission order).
C22_AdmissionInOrder ==
  \A i, j \in Positions(buffered, "page_fetching") :
    i < j => buffered[i].index < buffered[j].index

\* C22 witness: three tasks were admitted, the last of them after the others
C22_Witness ==
  /\ program = "server"
  /\ CountType(buffered, "page_fetching") = 3
  /\ buffered[Len(buffered)].type = "page_fetching"
  /\ buffered[Len(buffered)].index = 2

\* A step in which the limiter's slot moves on: the running task's slot is
\* taken back, a further task passes its abort check, or, tasks having run,
\* the run goes past Promise.all (done is emitted, the cli builds its summary)
SlotMovesOn ==
  /\ invoked # {}
  /\ \/ released' # released
     \/ invoked' # invoked
     \/ CountType(buffered', "page_fetching") > CountType(buffered, "page_fetching")
     \/ CountType(buffered', "done") > CountType(buffered, "done")
     \/ (summary = Null /\ summary' # Null)

\* The delay of the running task is what the step follows: the task was at its
\* sleep (the cli starts no timer for a delay of 0)
DelayElapsed ==
  \/ taskAt = "sleep"
  \/ program = "cli" /\ pc = "tasks" /\ ParseDelay(params.delay) = 0

\* C23: the slot is released only after the inter-task delay: once tasks run,
\* no task passes its abort check or emits page_fetching, and done is not
\* emitted, except in the step in which the running task's delay elapses; and
\* while that delay runs the last page event is the task's own page_done.
C23_ReleaseAfterDelay ==
  /\ [][SlotMovesOn => DelayElapsed]_vars
  /\ []((program = "server" /\ taskAt = "sleep") =>
          /\ CountPage(buffered, "page_done", running) = 1
          /\ \A i \in PagePositions(buffered, "page_done", running), j \in DOMAIN buffered :
               j > i => buffered[j].type = "cancelled" \/ buffered[j].type = "stream_end")

\* C23 witness: the delay of task 0 elapsed and task 1 was admitted, the
\* page_fetching of task 1 directly following the page_done of task 0
C23_Witness ==
  /\ program = "server"
  /\ released = {0}
  /\ running = 1
  /\ Len(buffered) >= 2
  /\ buffered[Len(buffered)].type = "page_fetching"
  /\ buffered[Len(buffered) - 1].type = "page_done"

\* Whether a message list has a message of the kind
HasKind(messages, kind) == \E i \in DOMAIN messages : messages[i].type = kind

\* The results written so far, as the set of their indexes
Recorded == {i \in 0..(Len(results) - 1) : results[i + 1] # Null}

\* C24: the result of a check that succeeded has status errors if one of its
\* messages is an error, otherwise warnings if one is a warning, otherwise
\* clean, and never failed; the result of a check that failed has status
\* failed and none of the other three.
C24_Classification ==
  \A i \in Recorded :
    LET r == results[i + 1] IN
      /\ i \in rejected <=> r.status = "failed"
      /\ i \notin rejected =>
           /\ r.status = "errors" <=> HasKind(r.messages, "error")
           /\ r.status = "warnings" <=>
                (~HasKind(r.messages, "error") /\ HasKind(r.messages, "warning"))
           /\ r.status = "clean" <=>
                (~HasKind(r.messages, "error") /\ ~HasKind(r.messages, "warning"))

\* C24 witness: one run recorded a page with an error and a warning as errors,
\* a page with a warning and an info message as warnings, and a failed check
C24_Witness ==
  /\ Recorded = {0, 1, 2}
  /\ rejected = {2}
  /\ results[1].status = "errors" /\ HasKind(results[1].messages, "warning")
  /\ results[2].status = "warnings" /\ HasKind(results[2].messages, "info")
  /\ results[3].status = "failed"

\* C25: in a job whose submitted root is an index with nested sitemap URLs
\* s1..sN (no abort requested), once the resolution is over the event sequence
\* starts with one sitemapindex_resolving of count N, then for each sk in order
\* a sitemapindex_fetching(sk) immediately followed by a sitemapindex_fetched(sk)
\* or a sitemapindex_fetch_error(sk), then one sitemapindex_resolved whose
\* totalUrls is the number of URLs collected.
C25_IndexEventSequence ==
  (IndexJob /\ pc # "resolving" /\ abortCalls = 0) =>
    LET N == Len(sitemapUrls) IN
      /\ Len(buffered) >= 2 * N + 2
      /\ buffered[1] = IndexResolving(sitemapUrls)
      /\ \A k \in 1..N :
           /\ buffered[2 * k] = IndexFetching(sitemapUrls[k])
           /\ buffered[2 * k + 1].type \in {"sitemapindex_fetched", "sitemapindex_fetch_error"}
           /\ buffered[2 * k + 1].url = sitemapUrls[k]
      /\ buffered[2 * N + 2] = IndexResolved(Len(rawUrls))

\* The sitemaps that a nested sitemap, itself answered as an index, references
ReferencedBy(u) ==
  IF web[u].ok /\ web[u].root = "sitemapindex"
    THEN {web[u].entries[j] : j \in DOMAIN web[u].entries} \ {NoLoc}
  ELSE {}

\* C26: in the server pipeline the resolution of an index is recursive: once
\* the resolution is over, every sitemap referenced by a nested sitemap that
\* is itself an index (depth 1, within the depth bound) has been requested, so
\* that its URLs can be part of the resolved list.
C26_ServerRecursion ==
  (IndexJob /\ pc # "resolving") =>
    \A u \in DOMAIN web : \A inner \in ReferencedBy(u) :
      /\ inner \in DOMAIN web
      /\ CountUrl("sitemapindex_fetching", inner) >= 1

\* C27: in the cli resolver, when the fetch of the first nested sitemap of the
\* root index fails, the resolution does not fail: the sitemap listed after it
\* is still requested and the URLs collected from it are what is returned.
C27_CliNestedFailureNonFatal ==
  (/\ Extracted
   /\ web[SitemapAt(0)].ok /\ web[SitemapAt(0)].root = "sitemapindex"
   /\ ~web[SitemapAt(1)].ok) =>
     /\ SideSitemap \in fetched
     /\ rawUrls = Locations(web[SideSitemap].entries)
     /\ ~(pc = "exited" /\ exitCode = 1 /\ summary = Null)

\* The positions of the entries of a document that have a location
WithLocation(entries) == {k \in DOMAIN entries : entries[k] # NoLoc}

\* list holds exactly the locations of entries, in document order
IsLocationsOf(list, entries) ==
  /\ Len(list) = Cardinality(WithLocation(entries))
  /\ \A k \in WithLocation(entries) : \E i \in DOMAIN list : list[i] = entries[k]
  /\ \A i, j \in DOMAIN list :
       i < j => \E k, l \in WithLocation(entries) :
                  k < l /\ entries[k] = list[i] /\ entries[l] = list[j]

\* C28: parseUrlsFromXml returns exactly the locations of the entries, in
\* document order: in a server job the URL list of a submitted urlset and the
\* nested sitemap list of a submitted index are those of the entries with a
\* location; sitemap_done, when emitted for a urlset, counts those entries and
\* lists them in order; and while one entry has a location no sitemap_error is
\* emitted for the urlset (a dropped entry is no error).
C28_EntriesWithoutLocationDropped ==
  (program = "server" /\ pc # "idle") =>
    /\ params.xml.root = "urlset" =>
         /\ IsLocationsOf(rawUrls, params.xml.entries)
         /\ \A i \in Positions(buffered, "sitemap_done") :
              /\ buffered[i].count = Cardinality(WithLocation(params.xml.entries))
              /\ \A k \in DOMAIN rawUrls : buffered[i].urls[k].path = rawUrls[k].path
         /\ WithLocation(params.xml.entries) # {} => CountType(buffered, "sitemap_error") = 0
    /\ params.xml.root = "sitemapindex" =>
         /\ IsLocationsOf(sitemapUrls, params.xml.entries)
         /\ buffered[1].type = "sitemapindex_resolving"
         /\ buffered[1].count = Cardinality(WithLocation(params.xml.entries))

\* C28 witness: a urlset of three entries whose second has no location was
\* submitted, and sitemap_done announced the two others
C28_Witness ==
  /\ program = "server"
  /\ pc = "tasks"
  /\ params.xml.root = "urlset"
  /\ Len(params.xml.entries) = 3
  /\ WithLocation(params.xml.entries) = {1, 3}
  /\ buffered[1].type = "sitemap_done"
  /\ buffered[1].count = 2

\* C30: the report is stored only on a job that was never aborted: while
\* aborted is true job.report is null (the report endpoint answers 404).
C30_NoReportOnceAborted ==
  (program = "server" /\ aborted) => report = Null

\* C29: for every discovered URL and base URL that parse, resolveUrlToBase
\* returns a URL whose scheme, host and port are those of the base URL and
\* whose path and query are those of the discovered URL.
C29_ResolveContract ==
  resolution # Null =>
    /\ resolution.result.scheme = resolution.base.scheme
    /\ resolution.result.host = resolution.base.host
    /\ resolution.result.port = resolution.base.port
    /\ resolution.result.path = resolution.loc.path
    /\ resolution.result.query = resolution.loc.query

\* Slot i of the results array holds a result
SlotWritten(res, i) == i + 1 \in DOMAIN res /\ res[i + 1] # Null

\* A step keeps what slot i holds, and writes it only from the task of index i
\* standing at its awaited check
SlotWriteOnce(i) ==
  /\ SlotWritten(results, i) => (SlotWritten(results', i) /\ results'[i + 1] = results[i + 1])
  /\ (~SlotWritten(results, i) /\ SlotWritten(results', i)) =>
       (running = i /\ taskAt = "validatePage")

\* C31: each slot of the results array is written at most once, only by the
\* task whose index is the slot, and not after that task's page_done; a
\* page_done(i) carries the status, messages and errorMessage of slot i, which
\* hold a result from then on and never change.
C31_SlotWrittenOnce ==
  /\ [][\A i \in 0..(MaxEntries + MaxNestedUrls) : SlotWriteOnce(i)]_vars
  /\ [](\A p \in Positions(buffered, "page_done") :
          LET i == buffered[p].index IN
            /\ SlotWritten(results, i)
            /\ buffered[p].status = results[i + 1].status
            /\ buffered[p].messages = results[i + 1].messages
            /\ buffered[p].errorMessage = results[i + 1].errorMessage
            /\ CountPage(buffered, "page_done", i) = 1)
  /\ [](program = "server" =>
          \A i \in Recorded : CountPage(buffered, "page_done", i) = 1)

\* C31 witness: two tasks wrote their slots, with different statuses, and both
\* page_done events are in the buffer while the third slot is still empty
C31_Witness ==
  /\ program = "server"
  /\ Len(results) = 3
  /\ Recorded = {0, 1}
  /\ results[1].status # results[2].status
  /\ CountPage(buffered, "page_done", 0) = 1
  /\ CountPage(buffered, "page_done", 1) = 1

\* The messages of a kind over the recorded results, as (slot, position) pairs,
\* and those of them that belong to pages that did not fail
MessagesOfKind(kind) ==
  {p \in UNION {{<<i, j>> : j \in DOMAIN results[i + 1].messages} : i \in Recorded} :
     results[p[1] + 1].messages[p[2]].type = kind}
MessagesOfCheckedPages(kind) ==
  {p \in MessagesOfKind(kind) : results[p[1] + 1].status # "failed"}

\* C32: in every summary totalErrors, totalWarnings and totalInfos are the
\* numbers of error, warning and info messages over all recorded results, and
\* the failed pages contribute nothing to them.
C32_TotalsAreMessageCounts ==
  summary # Null =>
    /\ summary.totalErrors = Cardinality(MessagesOfKind("error"))
    /\ summary.totalWarnings = Cardinality(MessagesOfKind("warning"))
    /\ summary.totalInfos = Cardinality(MessagesOfKind("info"))
    /\ \A kind \in MessageType : MessagesOfKind(kind) = MessagesOfCheckedPages(kind)

\* C32 witness: a summary over a page with two errors and a warning, a page
\* with a warning and an info message, and a failed page
C32_Witness ==
  /\ summary # Null
  /\ Recorded = {0, 1, 2}
  /\ summary.totalErrors = 2
  /\ summary.totalWarnings = 2
  /\ summary.totalInfos = 1
  /\ summary.pagesFailed = 1
  /\ summary.pagesWithErrors = 1

\* The cli runs with --delay given as a non-negative integer
DelayGiven == program = "cli" /\ pc # "idle" /\ ~params.delay.nan /\ params.delay.n >= 0

\* C33: for every non-negative integer d given as --delay the cli pauses d
\* milliseconds after each page task: the timer a task waits on is one of d
\* milliseconds, and with d = 0 no task waits on a timer at all.
C33_DelayAsGiven ==
  DelayGiven =>
    /\ taskAt = "sleep" => (params.delay.n > 0 /\ ParseDelay(params.delay) = params.delay.n)

\* C34: no observer is forwarded an event after it was forwarded a stream_end:
\* a stream_end in an observer's delivered sequence is its last event, whatever
\* is emitted on the job afterwards (by a task still running, by the end of
\* runValidation or by a further abort).
C34_NothingAfterStreamEnd ==
  \A o \in Observers : \A i \in DOMAIN delivered[o] :
    delivered[o][i].type = "stream_end" => i = Len(delivered[o])

\* The positions of the page events of the event sequence
AllPagePositions == {p \in DOMAIN buffered : buffered[p].type \in PageEventTypes}

\* C35: page events of different indices never interleave: for all indices
\* i < j, every page event of index i precedes every page event of index j.
C35_NoInterleaving ==
  \A p, q \in AllPagePositions :
    buffered[p].index < buffered[q].index => p < q

\* C35 witness: the three page events of task 0 are followed by the three of task 1
C35_Witness ==
  /\ program = "server"
  /\ CountPage(buffered, "page_validating", 0) = 1
  /\ CountPage(buffered, "page_done", 0) = 1
  /\ CountPage(buffered, "page_fetching", 1) = 1
  /\ CountPage(buffered, "page_validating", 1) = 1
  /\ CountPage(buffered, "page_done", 1) = 1

\* C36: sitemap_done is emitted at most once per job and before every page
\* event; every page event carries an index within the count of sitemap_done
\* and the url at that index of its urls list.
C36_PagesFollowSitemapDone ==
  /\ CountType(buffered, "sitemap_done") <= 1
  /\ \A p \in AllPagePositions :
       \E d \in Positions(buffered, "sitemap_done") :
         /\ d < p
         /\ buffered[p].index \in 0..(buffered[d].count - 1)
         /\ buffered[p].url = buffered[d].urls[buffered[p].index + 1]

\* C36 witness: sitemap_done announced two URLs resolved to a local base, and
\* the page_done of the second one is in the buffer
C36_Witness ==
  /\ program = "server"
  /\ params.base = "localhost"
  /\ buffered # <<>>
  /\ buffered[1].type = "sitemap_done"
  /\ buffered[1].count = 2
  /\ CountPage(buffered, "page_done", 1) = 1

\* C37: between operations job.done is true exactly when the buffered
\* sequence holds a stream_end event, and job.done and job.aborted never go
\* back from true to false.
C37_DoneIffStreamEnd ==
  /\ [](done <=> CountType(buffered, "stream_end") >= 1)
  /\ [][(done => done') /\ (aborted => aborted')]_vars

\* C37 witness: the job was ended by an abort and ended again by the end of
\* runValidation, both flags still true
C37_Witness ==
  /\ done
  /\ aborted
  /\ pc = "returned"
  /\ CountType(buffered, "stream_end") = 2

\* C38: in every summary pagesWithErrors is 0 exactly when totalErrors is 0,
\* pagesWithErrors <= totalErrors, and pagesWithWarnings <= totalWarnings (a
\* page has status warnings only with no error message).
C38_PageCountsWithinTotals ==
  summary # Null =>
    /\ summary.pagesWithErrors = 0 <=> summary.totalErrors = 0
    /\ summary.pagesWithErrors <= summary.totalErrors
    /\ summary.pagesWithWarnings <= summary.totalWarnings
    /\ \A i \in Recorded :
         results[i + 1].status = "warnings" => ~HasKind(results[i + 1].messages, "error")

\* C38 witness: a summary with one page with errors for two errors, and one
\* page with warnings for two warnings
C38_Witness ==
  /\ summary # Null
  /\ summary.pagesWithErrors = 1
  /\ summary.totalErrors = 2
  /\ summary.pagesWithWarnings = 1
  /\ summary.totalWarnings = 2

\* The cli validated its pages, wrote the report and exited
CliReported == program = "cli" /\ pc = "exited" /\ summary # Null

\* The cli exited on a sitemap that resolved to no URL
CliEmptySitemap ==
  /\ program = "cli"
  /\ pc = "exited"
  /\ web # <<>>
  /\ extractUrlsFromSitemap(web, params.sitemap, 0).ok
  /\ extractUrlsFromSitemap(web, params.sitemap, 0).urls = <<>>

\* C39: having validated all pages and written the report, the cli exits with
\* status 1 exactly when the summary has pagesWithErrors > 0 or pagesFailed > 0
\* (status 0 otherwise, so with warnings only); on an empty sitemap it exits
\* with status 0 before any page is checked.
C39_CliExitStatus ==
  /\ CliReported =>
       /\ exitCode \in {0, 1}
       /\ exitCode = 1 <=> (summary.pagesWithErrors > 0 \/ summary.pagesFailed > 0)
       /\ Recorded = 0..(Len(resolvedUrls) - 1)
  /\ CliEmptySitemap => (exitCode = 0 /\ invoked = {} /\ summary = Null)

\* C39 witness: the cli exited with status 0 on a report whose pages have
\* warnings and no error
C39_Witness ==
  /\ CliReported
  /\ exitCode = 0
  /\ summary.pagesWithWarnings >= 1
  /\ summary.totalPages >= 2

\* C39 witness of the empty case: the sitemap answered a urlset without URL
C39_EmptyReached == CliEmptySitemap /\ exitCode = 0

\* C40: normalizeType gives every checker message exactly one kind: error for
\* type error, warning for type info with subType warning, info for every
\* other (type, subType) pair; so a page gets status errors only from an
\* answer that has a message of type error.
C40_NormalizeType ==
  mapped # Null =>
    /\ Len(mapped.messages) = Len(mapped.data)
    /\ \A i \in DOMAIN mapped.data :
         LET raw == mapped.data[i]
             kind == mapped.messages[i].type
         IN /\ kind \in MessageType
            /\ raw.type = "error" => kind = "error"
            /\ (raw.type = "info" /\ raw.subType = "warning") => kind = "warning"
            /\ (raw.type # "error" /\ ~(raw.type = "info" /\ raw.subType = "warning")) =>
                 kind = "info"
    /\ mapped.status = "errors" => \E i \in DOMAIN mapped.data : mapped.data[i].type = "error"

\* C40 witness: an answer with a non-document-error of subType warning and a
\* warning was mapped to an info and a warning, which make the page's status warnings
C40_Witness ==
  /\ mapped # Null
  /\ mapped.data = <<RawMsg("non-document-error", "warning"), RawMsg("info", "warning")>>
  /\ mapped.messages = <<Msg("info"), Msg("warning")>>
  /\ mapped.status = "warnings"

====
